---- MODULE Spec2Model ----
(***************************************************************************)
(* EchoPrep-AI: the client-side voice turn-taking loop                     *)
(* (RealtimeInterviewSystem, NaturalInterviewSystem,                       *)
(* BrowserSpeechRecognition) and the Express/Postgres request handlers     *)
(* (auth, interviews).                                                     *)
(*                                                                         *)
(* Time in the voice model advances in steps of VAD_PERIOD ms, the period  *)
(* of the voice-activity sampler.  A timer holds the number of periods     *)
(* left before its callback is due; callbacks that are due in the same     *)
(* period run in any order.  Date.now() differences are kept as ages       *)
(* (periods since the timestamp was written), saturated where the code's   *)
(* comparisons can no longer tell them apart.                              *)
(*                                                                         *)
(* The server model follows one HTTP request per slot through the          *)
(* middleware and its handler; a handler's awaits are its step boundaries. *)
(***************************************************************************)
EXTENDS Integers, Sequences, FiniteSets, TLC

VARIABLES
    \* ---- voice systems (fields of the three classes) ----
    sys,                  \* which class the page instantiated
    stage,                \* page lifecycle: constructed, initialized, running, stopped
    conversationActive,
    isAISpeaking,
    isUserSpeaking,
    isListening,          \* BrowserSpeechRecognition.isListening
    userSpeechBuffer,     \* sequence of words, each word its length in characters
    silenceTimer,         \* NoTimer, or periods left
    vadInterval,          \* the sampler interval is installed
    vadDue,               \* the sampler callback is due in this period
    sinceSound,           \* Date.now() - lastSoundDetected, in periods
    sinceSpeech,          \* Date.now() - lastUserSpeechTime, in periods
    soundMinusSpeech,     \* lastSoundDetected - lastUserSpeechTime, in periods
    recState,             \* the browser recognizer: idle, listening, stopping, errored
    timers,               \* pending setTimeout callbacks other than silenceTimer
    synth,                \* speechSynthesis queue, head is being spoken
    aborted,              \* utterances removed by cancel() whose error event is pending
    currentQuestionIndex, \* Natural: index; Realtime: askedQuestions.size
    bankSize,             \* Natural: questionBank.length; Realtime: questionPool.length
    totalQuestions,       \* Natural: this.totalQuestions
    handlerCont,          \* Realtime: continuation behind this.synthesis.onend/onerror
    restartOwed,          \* history: an error was raised while listening was intended
                          \* and recognition has not been started since
    budget,               \* recognizer and synthesizer events still allowed in this run
    \* ---- server (Postgres tables, requests in flight) ----
    users,                \* rows of table users
    sessions,             \* rows of table interview_sessions, in order of creation
    answers,              \* rows of table interview_answers
    resumes,              \* rows of table resumes, in order of creation
    groqApiKey,           \* env.groqApiKey is set
    reqs,                 \* request slot -> the request and how far it has got
    served,               \* requests received so far
    \* ---- curated-job seeding ----
    companies,            \* seed -> rows of table companies with the seed's name
    jobs,                 \* seed -> rows of table jobs with the seed's externalId
    seedingPromise,       \* 0: null, else the run whose promise it holds
    runs,                 \* run -> how far that insertOrUpdateCuratedJob() has got
    lazyPending,          \* a GET /api/companies has counted no row and not yet seeded
    lastCall              \* history: the latest ensureCuratedJobsSeeded() call

voiceVars == <<sys, stage, conversationActive, isAISpeaking, isUserSpeaking,
               isListening, userSpeechBuffer, silenceTimer, vadInterval, vadDue,
               sinceSound, sinceSpeech, soundMinusSpeech, recState, timers,
               synth, aborted, currentQuestionIndex, bankSize, totalQuestions, handlerCont,
               restartOwed, budget>>

seedVars == <<companies, jobs, seedingPromise, runs, lazyPending, lastCall>>

serverVars == <<users, sessions, answers, resumes, groqApiKey, reqs, served, seedVars>>

vars == <<voiceVars, serverVars>>

----------------------------------------------------------------------------
\* Program constants (milliseconds)
VAD_PERIOD == 100
SILENCE_DURATION == 1500
RT_MIN_SPEECH_DURATION == 500
NAT_MIN_SPEECH_DURATION == 600
RESTART_DELAY == 100
UTTERANCE_RESTART_DELAY == 300
RESPOND_DELAY == 500
FIRST_QUESTION_DELAY == 1000
NAME_WAIT == 7000
MS_PER_CHAR == 10
SHORT_ANSWER_WORDS == 8
RT_POOL_SIZE == 20

NAT_MIN_QUESTIONS == 8
RANDOM_SPAN == 13
POOL_FRESHER == 10
POOL_MID == 16
POOL_SENIOR == 13

\* Bounds of the model
MaxBufferWords == 9
MaxRandom == 0
MaxEvents == 1

Ticks(ms) == (ms + VAD_PERIOD - 1) \div VAD_PERIOD
SilenceTicks == Ticks(SILENCE_DURATION)
\* Ages saturate where no comparison of the code can tell them apart any more
SoundCap == SilenceTicks
LongestWord == 7
MaxChars == MaxBufferWords * (LongestWord + 1)
SpanFloor == (NAT_MIN_SPEECH_DURATION - MaxChars * MS_PER_CHAR - 1) \div VAD_PERIOD
SpanCap == Ticks(NAT_MIN_SPEECH_DURATION)
NoTimer == -1

Min(a, b) == IF a < b THEN a ELSE b
Max(a, b) == IF a > b THEN a ELSE b

----------------------------------------------------------------------------
\* Strings: a transcript is a sequence of words, a word is its length.

RECURSIVE SumLen(_)
SumLen(ws) == IF ws = <<>> THEN 0 ELSE Head(ws) + 1 + SumLen(Tail(ws))

\* userSpeechBuffer.length: every word is followed by one space
Chars(buf) == SumLen(buf)
\* response.split(/\s+/).length of the trimmed buffer
WordCount(buf) == Len(buf)
\* userSpeechBuffer.trim() is non-empty
NonBlank(buf) == Len(buf) > 0

ShortAnswer == <<3>>
LongAnswer == [i \in 1..SHORT_ANSWER_WORDS |-> LongestWord]
Transcripts == {ShortAnswer, LongAnswer}

ErrorKinds == {"no-speech", "aborted", "audio-capture", "network"}

Range(f) == {f[i] : i \in DOMAIN f}

\* A setTimeout other than the silence timer: kind, periods left, payload
Timer(k, ms, w) == [k |-> k, t |-> Ticks(ms), w |-> w]
Due(k) == {r \in timers : r.k = k /\ r.t = 0}

----------------------------------------------------------------------------
\* The browser recognizer

\* recognition.stop(): a running session winds down, its end event follows
RecStop(rs) == IF rs = "listening" THEN "stopping" ELSE rs
\* recognition.start(): throws InvalidStateError unless the session has ended
RecStart(rs) == IF rs = "idle" THEN "listening" ELSE rs

SpeechCap ==
    IF sys = "Natural" THEN SpanCap ELSE Ticks(RT_MIN_SPEECH_DURATION)

ListeningIntended ==
    IF sys = "Browser" THEN isListening
    ELSE conversationActive /\ ~isAISpeaking

----------------------------------------------------------------------------
\* NaturalInterviewSystem.constructor / initializeQuestionBank

PoolSize(level) ==
    CASE level = "Fresher/Entry-level" -> POOL_FRESHER
      [] level = "Mid-level" -> POOL_MID
      [] OTHER -> POOL_SENIOR

ExperienceLevels == {"Fresher/Entry-level", "Mid-level", "Senior"}

\* Math.floor(Math.random() * 13) + 8, the random outcome r
TotalQuestionsOf(r) == r + NAT_MIN_QUESTIONS
\* shuffled.slice(0, totalQuestions).length
BankSizeOf(level, r) == Min(PoolSize(level), TotalQuestionsOf(r))

----------------------------------------------------------------------------
\* Voice systems: initial state (after the constructor)

\* maxr: the largest outcome of the random draw that is followed
Constructed(maxr) ==
    /\ sys \in {"Realtime", "Natural", "Browser"}
    /\ stage = "constructed"
    /\ conversationActive = FALSE
    /\ isAISpeaking = FALSE
    /\ isUserSpeaking = FALSE
    /\ isListening = FALSE
    /\ userSpeechBuffer = <<>>
    /\ silenceTimer = NoTimer
    /\ vadInterval = FALSE
    /\ vadDue = FALSE
    /\ sinceSound = SoundCap
    /\ sinceSpeech = SpeechCap
    /\ soundMinusSpeech = 0
    /\ recState = "idle"
    /\ timers = {}
    /\ synth = <<>>
    /\ aborted = {}
    /\ currentQuestionIndex = 0
    /\ \E level \in ExperienceLevels, r \in 0..maxr :
          /\ bankSize = IF sys = "Natural" THEN BankSizeOf(level, r) ELSE RT_POOL_SIZE
          /\ totalQuestions = IF sys = "Natural" THEN TotalQuestionsOf(r) ELSE 0
    /\ handlerCont = "none"
    /\ restartOwed = FALSE
    /\ budget = MaxEvents

VoiceInit == Constructed(MaxRandom)

isInitialized == stage # "constructed"

\* initialize() succeeded: microphone granted, recognizer and handlers installed
Initialize ==
    /\ stage = "constructed"
    /\ stage' = "initialized"
    /\ UNCHANGED <<serverVars, sys, conversationActive, isAISpeaking, isUserSpeaking,
                   isListening, userSpeechBuffer, silenceTimer, vadInterval, vadDue,
                   sinceSound, sinceSpeech, soundMinusSpeech, recState, timers,
                   synth, aborted, currentQuestionIndex, bankSize, totalQuestions, handlerCont,
                   restartOwed, budget>>

----------------------------------------------------------------------------
\* speakText(text): the part that runs synchronously inside the caller.
\* cont names what the caller does once the returned promise resolves;
\* tms is the timer set the caller leaves behind.

\* Natural builds a new SpeechSynthesisUtterance per call; Realtime speaks the one
\* this.synthesis object every time.
Utterance(cont) == IF sys = "Realtime" THEN "synthesis" ELSE cont

SpeakText(cont, tms) ==
    /\ isAISpeaking' = TRUE
    /\ synth' = IF isAISpeaking THEN <<Utterance(cont)>>
                 ELSE Append(synth, Utterance(cont))
    /\ aborted' = IF isAISpeaking THEN aborted \cup Range(synth) ELSE aborted
    /\ recState' = RecStop(recState)
    /\ handlerCont' = IF sys = "Realtime" THEN cont ELSE handlerCont
    /\ timers' = tms
    /\ restartOwed' = FALSE

\* What runs after `await this.speakText(...)` in each caller
AfterSpeech(cont, tms) ==
    CASE cont = "greeting" /\ sys = "Natural" ->
            /\ timers' = tms \cup {Timer("nameWait", NAME_WAIT, 0)}
            /\ UNCHANGED conversationActive
      [] cont = "greeting" /\ sys = "Realtime" ->
            /\ timers' = tms \cup {Timer("firstQuestion", FIRST_QUESTION_DELAY, 0)}
            /\ UNCHANGED conversationActive
      [] cont = "welcome" ->
            /\ timers' = tms \cup {Timer("firstQuestion", FIRST_QUESTION_DELAY, 0)}
            /\ UNCHANGED conversationActive
      [] cont = "closing" ->
            /\ timers' = tms
            /\ conversationActive' = FALSE
      [] OTHER ->
            /\ timers' = tms
            /\ UNCHANGED conversationActive

\* The continuation an utterance event resolves: Natural keeps one closure per
\* utterance, Realtime reuses this.synthesis and its latest handlers.
ContOf(u) == IF sys = "Realtime" THEN handlerCont ELSE u

\* utterance.onend
UtteranceEnd ==
    /\ synth # <<>>
    /\ synth' = Tail(synth)
    /\ isAISpeaking' = FALSE
    /\ AfterSpeech(ContOf(Head(synth)),
                   timers \cup {Timer("uttRestart", UTTERANCE_RESTART_DELAY, 0)})
    /\ handlerCont' = "none"
    /\ UNCHANGED <<serverVars, sys, stage, isUserSpeaking, isListening, userSpeechBuffer,
                   silenceTimer, vadInterval, vadDue, sinceSound, sinceSpeech,
                   soundMinusSpeech, recState, aborted, currentQuestionIndex,
                   bankSize, totalQuestions, restartOwed, budget>>

\* utterance.onerror, for the utterance being spoken
UtteranceError ==
    /\ synth # <<>>
    /\ synth' = Tail(synth)
    /\ isAISpeaking' = FALSE
    /\ AfterSpeech(ContOf(Head(synth)), timers)
    /\ handlerCont' = "none"
    /\ budget > 0
    /\ budget' = budget - 1
    /\ UNCHANGED <<serverVars, sys, stage, isUserSpeaking, isListening, userSpeechBuffer,
                   silenceTimer, vadInterval, vadDue, sinceSound, sinceSpeech,
                   soundMinusSpeech, recState, aborted, currentQuestionIndex,
                   bankSize, totalQuestions, restartOwed>>

\* utterance.onerror, for an utterance that synthesis.cancel() removed
UtteranceCancelled ==
    \E u \in aborted :
        /\ aborted' = aborted \ {u}
        /\ isAISpeaking' = FALSE
        /\ AfterSpeech(ContOf(u), timers)
        /\ handlerCont' = "none"
        /\ UNCHANGED <<serverVars, sys, stage, isUserSpeaking, isListening, userSpeechBuffer,
                       silenceTimer, vadInterval, vadDue, sinceSound, sinceSpeech,
                       soundMinusSpeech, recState, synth, currentQuestionIndex,
                       bankSize, totalQuestions, restartOwed, budget>>

----------------------------------------------------------------------------
\* askNextQuestion(), as the tail of the callback that calls it

AskNextQuestion(tms) ==
    IF currentQuestionIndex >= bankSize
    THEN \* Natural: completeInterview(); Realtime: selectNextQuestion() = null
         /\ SpeakText("closing", tms)
         /\ UNCHANGED currentQuestionIndex
    ELSE /\ currentQuestionIndex' = currentQuestionIndex + 1
         /\ SpeakText("question", tms)

\* askNextQuestion(), the question counter alone: a bank question is asked
AskNextOnly ==
    /\ sys = "Natural"
    /\ currentQuestionIndex < bankSize
    /\ currentQuestionIndex' = currentQuestionIndex + 1
    /\ UNCHANGED <<serverVars, sys, stage, conversationActive, isAISpeaking,
                   isUserSpeaking, isListening, userSpeechBuffer, silenceTimer,
                   vadInterval, vadDue, sinceSound, sinceSpeech, soundMinusSpeech,
                   recState, timers, synth, aborted, bankSize, totalQuestions,
                   handlerCont, restartOwed, budget>>

\* start()
Start ==
    /\ sys \in {"Realtime", "Natural"}
    /\ stage = "initialized"
    /\ stage' = "running"
    /\ conversationActive' = TRUE
    /\ vadInterval' = TRUE
    /\ isAISpeaking' = TRUE
    /\ synth' = Append(synth, Utterance("greeting"))
    /\ handlerCont' = IF sys = "Realtime" THEN "greeting" ELSE handlerCont
    \* recognition.start() and, inside speakText, recognition.stop()
    /\ recState' = RecStop(RecStart(recState))
    /\ UNCHANGED <<serverVars, sys, isUserSpeaking, isListening, userSpeechBuffer, silenceTimer,
                   vadDue, sinceSound, sinceSpeech, soundMinusSpeech, timers,
                   aborted, currentQuestionIndex, bankSize, totalQuestions, restartOwed, budget>>

\* stop() (cleanup() calls it)
Stop ==
    /\ sys \in {"Realtime", "Natural"}
    /\ stage = "running"
    /\ stage' = "stopped"
    /\ conversationActive' = FALSE
    /\ recState' = RecStop(recState)
    /\ synth' = <<>>
    /\ aborted' = aborted \cup Range(synth)
    /\ vadInterval' = FALSE
    /\ vadDue' = FALSE
    /\ silenceTimer' = NoTimer
    /\ isAISpeaking' = FALSE
    /\ isUserSpeaking' = FALSE
    /\ restartOwed' = FALSE
    /\ UNCHANGED <<serverVars, sys, isListening, userSpeechBuffer, sinceSound, sinceSpeech,
                   soundMinusSpeech, timers, currentQuestionIndex, bankSize, totalQuestions,
                   handlerCont, budget>>

\* start(): the callback of setTimeout(..., 7000), Natural only
NameWaitElapsed ==
    \E r \in Due("nameWait") :
        /\ SpeakText("welcome", timers \ {r})
        /\ UNCHANGED <<serverVars, sys, stage, conversationActive, isUserSpeaking, isListening,
                       userSpeechBuffer, silenceTimer, vadInterval, vadDue,
                       sinceSound, sinceSpeech, soundMinusSpeech,
                       currentQuestionIndex, bankSize, totalQuestions, budget>>

\* start(): the first askNextQuestion() after the 1000 ms wait
FirstQuestion ==
    \E r \in Due("firstQuestion") :
        /\ AskNextQuestion(timers \ {r})
        /\ UNCHANGED <<serverVars, sys, stage, conversationActive, isUserSpeaking, isListening,
                       userSpeechBuffer, silenceTimer, vadInterval, vadDue,
                       sinceSound, sinceSpeech, soundMinusSpeech, bankSize, totalQuestions, budget>>

\* Natural processUserResponse: the answer is too short to move on
TooShort(words) == words < SHORT_ANSWER_WORDS /\ currentQuestionIndex > 0

\* processUserResponse(response) after its 500 ms wait; r.w is the word count
\* of the response it was called with
Respond ==
    \E r \in Due("respond") :
        /\ IF sys = "Natural" /\ TooShort(r.w)
           THEN /\ SpeakText("brief", timers \ {r})
                /\ UNCHANGED currentQuestionIndex
           ELSE AskNextQuestion(timers \ {r})
        /\ UNCHANGED <<serverVars, sys, stage, conversationActive, isUserSpeaking, isListening,
                       userSpeechBuffer, silenceTimer, vadInterval, vadDue,
                       sinceSound, sinceSpeech, soundMinusSpeech, bankSize, totalQuestions, budget>>

----------------------------------------------------------------------------
\* Voice activity detection and the silence timer

\* processUserResponse(buffer.trim()) up to its first await, then buffer = ''
HandToProcess ==
    /\ timers' = timers \cup {Timer("respond", RESPOND_DELAY, WordCount(userSpeechBuffer))}
    /\ userSpeechBuffer' = <<>>

\* Realtime startSilenceTimer(): the early return for too little speech
RtTooShort == sinceSpeech * VAD_PERIOD < RT_MIN_SPEECH_DURATION

\* Realtime: the setInterval callback of startVoiceActivityDetection()
RtVadSample ==
    /\ sys = "Realtime"
    /\ vadDue
    /\ vadDue' = FALSE
    /\ IF isAISpeaking
       THEN /\ isUserSpeaking' = FALSE
            /\ UNCHANGED <<silenceTimer, sinceSound>>
       ELSE \E isSpeaking \in BOOLEAN :
            /\ sinceSound' = IF isSpeaking THEN 0 ELSE sinceSound
            /\ isUserSpeaking' = isSpeaking
            /\ silenceTimer' =
                 IF isSpeaking = isUserSpeaking THEN silenceTimer
                 ELSE IF isSpeaking THEN NoTimer
                 ELSE IF RtTooShort THEN NoTimer
                 ELSE SilenceTicks
    /\ UNCHANGED <<serverVars, sys, stage, conversationActive, isAISpeaking, isListening,
                   userSpeechBuffer, vadInterval, sinceSpeech, soundMinusSpeech,
                   recState, timers, synth, aborted, currentQuestionIndex, bankSize, totalQuestions,
                   handlerCont, restartOwed, budget>>

\* Realtime: the setTimeout callback of startSilenceTimer()
RtSilenceElapsed ==
    /\ sys = "Realtime"
    /\ silenceTimer = 0
    /\ silenceTimer' = NoTimer
    /\ IF NonBlank(userSpeechBuffer)
       THEN HandToProcess
       ELSE UNCHANGED <<timers, userSpeechBuffer>>
    /\ UNCHANGED <<serverVars, sys, stage, conversationActive, isAISpeaking, isUserSpeaking,
                   isListening, vadInterval, vadDue, sinceSound, sinceSpeech,
                   soundMinusSpeech, recState, synth, aborted, currentQuestionIndex,
                   bankSize, totalQuestions, handlerCont, restartOwed, budget>>

\* Natural: the setInterval callback of startVoiceActivityDetection()
NatVadSample ==
    /\ sys = "Natural"
    /\ vadDue
    /\ vadDue' = FALSE
    /\ IF isAISpeaking
       THEN /\ isUserSpeaking' = FALSE
            /\ UNCHANGED <<silenceTimer, sinceSound, soundMinusSpeech>>
       ELSE \E isSpeaking \in BOOLEAN :
            /\ sinceSound' = IF isSpeaking THEN 0 ELSE sinceSound
            /\ soundMinusSpeech' = IF isSpeaking THEN sinceSpeech ELSE soundMinusSpeech
            /\ isUserSpeaking' = isSpeaking
            /\ silenceTimer' =
                 IF isSpeaking # isUserSpeaking /\ ~isSpeaking
                    /\ NonBlank(userSpeechBuffer)
                 THEN SilenceTicks
                 ELSE silenceTimer
    /\ UNCHANGED <<serverVars, sys, stage, conversationActive, isAISpeaking, isListening,
                   userSpeechBuffer, vadInterval, sinceSpeech, recState, timers,
                   synth, aborted, currentQuestionIndex, bankSize, totalQuestions, handlerCont,
                   restartOwed, budget>>

\* Variant of the test below without the silenceDuration comparison
NatSilenceOk_NoSilenceTest ==
    /\ NonBlank(userSpeechBuffer)
    /\ soundMinusSpeech * VAD_PERIOD + Chars(userSpeechBuffer) * MS_PER_CHAR
         >= NAT_MIN_SPEECH_DURATION

\* Natural checkSilenceTimeout(): the test inside the timer callback
NatSilenceOk ==
    /\ NonBlank(userSpeechBuffer)
    /\ sinceSound * VAD_PERIOD >= SILENCE_DURATION
    /\ soundMinusSpeech * VAD_PERIOD + Chars(userSpeechBuffer) * MS_PER_CHAR
         >= NAT_MIN_SPEECH_DURATION

\* Natural: the setTimeout callback of checkSilenceTimeout()
NatSilenceElapsed ==
    /\ sys = "Natural"
    /\ silenceTimer = 0
    /\ silenceTimer' = NoTimer
    /\ IF NatSilenceOk
       THEN HandToProcess
       ELSE UNCHANGED <<timers, userSpeechBuffer>>
    /\ UNCHANGED <<serverVars, sys, stage, conversationActive, isAISpeaking, isUserSpeaking,
                   isListening, vadInterval, vadDue, sinceSound, sinceSpeech,
                   soundMinusSpeech, recState, synth, aborted, currentQuestionIndex,
                   bankSize, totalQuestions, handlerCont, restartOwed, budget>>

----------------------------------------------------------------------------
\* Recognizer events

\* recognition.onresult with a final transcript
OnResult ==
    /\ sys \in {"Realtime", "Natural"}
    /\ recState \in {"listening", "stopping"}
    /\ \E tr \in Transcripts :
         /\ Len(userSpeechBuffer) + Len(tr) <= MaxBufferWords
         /\ userSpeechBuffer' = userSpeechBuffer \o tr
    /\ sinceSpeech' = 0
    /\ soundMinusSpeech' = IF sys = "Natural" THEN Max(0 - sinceSound, SpanFloor) ELSE 0
    /\ budget > 0
    /\ budget' = budget - 1
    /\ UNCHANGED <<serverVars, sys, stage, conversationActive, isAISpeaking, isUserSpeaking,
                   isListening, silenceTimer, vadInterval, vadDue, sinceSound,
                   recState, timers, synth, aborted, currentQuestionIndex, bankSize, totalQuestions,
                   handlerCont, restartOwed>>

\* Does recognition.onerror schedule a restart for this error?
ErrorRestarts(e) ==
    CASE sys = "Realtime" -> e \in {"no-speech", "audio-capture"}
      [] sys = "Natural" -> e \notin {"no-speech", "aborted"}
      [] OTHER -> e \in {"no-speech", "aborted"} /\ isListening

RestartKind == IF sys = "Browser" THEN "bRestart" ELSE "errRestart"

\* recognition.onerror
OnError ==
    /\ recState = "listening"
    /\ recState' = "errored"
    /\ \E e \in ErrorKinds :
         timers' = IF ErrorRestarts(e)
                   THEN timers \cup {Timer(RestartKind, RESTART_DELAY, 0)}
                   ELSE timers
    /\ restartOwed' = (restartOwed \/ ListeningIntended)
    /\ budget > 0
    /\ budget' = budget - 1
    /\ UNCHANGED <<serverVars, sys, stage, conversationActive, isAISpeaking, isUserSpeaking,
                   isListening, userSpeechBuffer, silenceTimer, vadInterval, vadDue,
                   sinceSound, sinceSpeech, soundMinusSpeech, synth, aborted,
                   currentQuestionIndex, bankSize, totalQuestions, handlerCont>>

\* Variant of the test below in which onend never restarts
EndRestarts_Never == FALSE

\* Does recognition.onend schedule a restart?
EndRestarts ==
    IF sys = "Browser" THEN isListening
    ELSE conversationActive /\ ~isAISpeaking

EndRestartKind == IF sys = "Browser" THEN "bRestart" ELSE "endRestart"

\* recognition.onend: the session is over (after stop(), after an error, or
\* because the browser ended it)
OnEnd ==
    /\ recState \in {"listening", "stopping", "errored"}
    /\ recState' = "idle"
    /\ timers' = IF EndRestarts
                 THEN timers \cup {Timer(EndRestartKind, RESTART_DELAY, 0)}
                 ELSE timers
    /\ IF recState = "listening"
       THEN /\ budget > 0
            /\ budget' = budget - 1
       ELSE UNCHANGED budget
    /\ UNCHANGED <<serverVars, sys, stage, conversationActive, isAISpeaking, isUserSpeaking,
                   isListening, userSpeechBuffer, silenceTimer, vadInterval, vadDue,
                   sinceSound, sinceSpeech, soundMinusSpeech, synth, aborted,
                   currentQuestionIndex, bankSize, totalQuestions, handlerCont, restartOwed>>

\* The guard inside each restart callback
RestartGuard(k) ==
    CASE k = "errRestart" /\ sys = "Realtime" -> conversationActive
      [] k = "errRestart" -> conversationActive /\ ~isAISpeaking
      [] k = "endRestart" -> TRUE
      [] k = "uttRestart" -> conversationActive
      [] OTHER -> isListening

RestartKinds == {"errRestart", "endRestart", "uttRestart", "bRestart"}

\* A restart callback: recognition.start() under its guard
Restart ==
    \E r \in timers :
        /\ r.k \in RestartKinds
        /\ r.t = 0
        /\ timers' = timers \ {r}
        /\ recState' = IF RestartGuard(r.k) THEN RecStart(recState) ELSE recState
        /\ restartOwed' = (restartOwed /\ recState' # "listening")
        /\ UNCHANGED <<serverVars, sys, stage, conversationActive, isAISpeaking, isUserSpeaking,
                       isListening, userSpeechBuffer, silenceTimer, vadInterval,
                       vadDue, sinceSound, sinceSpeech, soundMinusSpeech, synth,
                       aborted, currentQuestionIndex, bankSize, totalQuestions, handlerCont, budget>>

----------------------------------------------------------------------------
\* BrowserSpeechRecognition.start() / stop()

BrowserStart ==
    /\ sys = "Browser"
    /\ isInitialized
    /\ ~isListening
    /\ isListening' = TRUE
    /\ recState' = RecStart(recState)
    /\ restartOwed' = (restartOwed /\ recState' # "listening")
    /\ UNCHANGED <<serverVars, sys, stage, conversationActive, isAISpeaking, isUserSpeaking,
                   userSpeechBuffer, silenceTimer, vadInterval, vadDue, sinceSound,
                   sinceSpeech, soundMinusSpeech, timers, synth, aborted,
                   currentQuestionIndex, bankSize, totalQuestions, handlerCont, budget>>

BrowserStop ==
    /\ sys = "Browser"
    /\ isListening
    /\ isListening' = FALSE
    /\ recState' = RecStop(recState)
    /\ restartOwed' = FALSE
    /\ UNCHANGED <<serverVars, sys, stage, conversationActive, isAISpeaking, isUserSpeaking,
                   userSpeechBuffer, silenceTimer, vadInterval, vadDue, sinceSound,
                   sinceSpeech, soundMinusSpeech, timers, synth, aborted,
                   currentQuestionIndex, bankSize, totalQuestions, handlerCont, budget>>

----------------------------------------------------------------------------
\* Time: one sampler period passes once every due callback has run

Tick ==
    /\ \A r \in timers : r.t > 0
    /\ silenceTimer # 0
    /\ ~vadDue
    /\ timers' = {[r EXCEPT !.t = r.t - 1] : r \in timers}
    /\ silenceTimer' = IF silenceTimer = NoTimer THEN NoTimer ELSE silenceTimer - 1
    /\ vadDue' = vadInterval
    /\ sinceSound' = Min(sinceSound + 1, SoundCap)
    /\ sinceSpeech' = Min(sinceSpeech + 1, SpeechCap)
    /\ UNCHANGED <<serverVars, sys, stage, conversationActive, isAISpeaking, isUserSpeaking,
                   isListening, userSpeechBuffer, vadInterval, soundMinusSpeech,
                   recState, synth, aborted, currentQuestionIndex, bankSize, totalQuestions,
                   handlerCont, restartOwed, budget>>

----------------------------------------------------------------------------
\* The Express server: data

\* Program constants
PASSWORD_MIN == 6
PASSWORD_MAX == 128
NUM_QUESTIONS == 7
TOTAL_QUESTIONS == 7

\* Bounds of the model
MaxRequests == 2
MaxServed == 4
MaxSessions == 2
MaxUsers == 2
MaxResumes == 1
MaxOwnerServed == 5
MaxSeeds == 2
MaxRuns == 2

Requests == 1..MaxRequests

\* A string that should hold a UUID: <<-1>> no such field, <<0>> not a UUID,
\* <<s>> the id of session s, <<s, k>> the id of question k of session s
Absent == <<-1>>
Malformed == <<0>>
IsUuid(x) == x[1] >= 1
SessionId(s) == <<s>>
QuestionId(s, k) == <<s, k>>

\* JSON Web Tokens: who they name, whether the server's secret signed them,
\* whether they are past their expiry
NoToken == [present |-> FALSE, sub |-> 0, signed |-> FALSE, expired |-> FALSE]
Jwt(u, sg, ex) == [present |-> TRUE, sub |-> u, signed |-> sg, expired |-> ex]
\* Variant of the check below that accepts every token
Verify_Any(tok) == TRUE

\* jwt.verify(token, env.jwtSecret)
Verify(tok) == tok.signed /\ ~tok.expired
\* buildToken(): jwt.sign with the server's secret, expiresIn 7d
buildToken(id) == Jwt(id, TRUE, FALSE)

Cookies == {NoToken, Jwt(2, FALSE, FALSE), Jwt(1, TRUE, TRUE)}
              \cup {Jwt(u, TRUE, FALSE) : u \in 1..MaxUsers}
NoHeader == [scheme |-> "none", tok |-> NoToken]
Headers == {NoHeader,
            [scheme |-> "Basic", tok |-> Jwt(1, TRUE, FALSE)],
            [scheme |-> "Bearer", tok |-> NoToken],
            [scheme |-> "Bearer", tok |-> Jwt(1, FALSE, FALSE)],
            [scheme |-> "Bearer", tok |-> Jwt(1, TRUE, FALSE)]}

\* E-mail addresses as typed: sequences of characters
Addresses == {<<"a", "@", "x">>, <<"A", "@", "x">>, <<" ", "a", "@", "x">>,
              <<"b", "@", "x">>, <<"a", "x">>}
RECURSIVE TrimLeft(_)
TrimLeft(s) == IF s # <<>> /\ Head(s) = " " THEN TrimLeft(Tail(s)) ELSE s
RECURSIVE TrimRight(_)
TrimRight(s) ==
    IF s # <<>> /\ s[Len(s)] = " " THEN TrimRight(SubSeq(s, 1, Len(s) - 1)) ELSE s
Trim(s) == TrimRight(TrimLeft(s))
LowerChar(c) == CASE c = "A" -> "a" [] c = "B" -> "b" [] c = "X" -> "x" [] OTHER -> c
toLowerCase(s) == [i \in DOMAIN s |-> LowerChar(s[i])]
\* z.string().email(): one "@" with something on both sides, no blank
IsEmail(s) ==
    /\ Cardinality({i \in DOMAIN s : s[i] = "@"}) = 1
    /\ s # <<>> /\ Head(s) # "@" /\ s[Len(s)] # "@"
    /\ \A i \in DOMAIN s : s[i] # " "

\* The file of a multipart upload: none, a readable DOCX, a DOCX without
\* extractable text, a file of another type
Files == {"none", "docx", "unreadable", "pdf"}

\* What the AI provider returns to analyzeResumeWithAI
AiResponses == {"valid", "empty", "unparsable", "noscores", "failed"}

\* What a request carries besides its credentials.  text and lines are lengths
\* (-1: no such field), score a number, id is req.params.id, file is req.file
Body(em, pw, sid, qid, text, lines, score, phase) ==
    [email |-> em, password |-> pw, sessionId |-> sid, questionId |-> qid,
     text |-> text, lines |-> lines, score |-> score, phase |-> phase,
     id |-> Absent, file |-> "none"]
EmptyBody == Body(<<>>, 0, Absent, Absent, -1, -1, -1, "absent")
Phases == {"intro", "collecting_info", "interviewing", "completed"}

\* schema.parse(req.body) succeeds
Parses(schema, b) ==
    CASE schema = "credentials" ->
            /\ IsEmail(Trim(b.email))
            /\ b.password >= PASSWORD_MIN /\ b.password <= PASSWORD_MAX
      [] schema = "createSession" -> b.text # 0 /\ b.sessionId # Malformed
      [] schema = "updateSession" -> b.score = -1 \/ (b.score >= 0 /\ b.score <= 100)
      [] schema = "updateMetadata" -> b.phase \in Phases \cup {"absent"}
      [] schema = "startInterview" -> b.text >= 1
      [] schema = "submitAnswer" ->
            IsUuid(b.sessionId) /\ IsUuid(b.questionId) /\ b.text >= 1
      [] schema = "generateFeedback" -> IsUuid(b.sessionId)
      [] schema = "transcript" -> b.lines >= 1
      [] schema = "analyzeInterview" -> IsUuid(b.sessionId) /\ b.lines >= 1
      [] schema = "token" ->
            /\ b.sessionId # Malformed
            /\ b.phase \in Phases \cup {"absent"}
      [] OTHER -> TRUE

SessionIds == {SessionId(s) : s \in 1..MaxSessions}
ResumeIds == {<<k>> : k \in 1..MaxResumes}
QuestionIds == {QuestionId(s, k) : s \in 1..MaxSessions, k \in 1..NUM_QUESTIONS}

\* The bodies a client sends to a route with this schema
Bodies(schema) ==
    CASE schema = "credentials" ->
            {[EmptyBody EXCEPT !.email = em, !.password = pw] :
                em \in Addresses,
                pw \in {PASSWORD_MIN - 1, PASSWORD_MIN, PASSWORD_MAX + 1}}
      [] schema = "createSession" ->
            {[EmptyBody EXCEPT !.text = t, !.sessionId = j] :
                t \in {-1, 0, 5}, j \in {Absent, Malformed}}
      [] schema = "updateSession" ->
            {[EmptyBody EXCEPT !.score = n] : n \in {-1, 50, 101}}
      [] schema = "updateMetadata" ->
            {[EmptyBody EXCEPT !.phase = p] : p \in {"absent", "completed", "done"}}
      [] schema = "startInterview" ->
            {[EmptyBody EXCEPT !.text = t] : t \in {-1, 0, 5}}
      [] schema = "submitAnswer" ->
            {[EmptyBody EXCEPT !.sessionId = sid, !.questionId = qid, !.text = t] :
                sid \in SessionIds \cup {Malformed},
                qid \in QuestionIds \cup {Malformed},
                t \in {0, 5}}
      [] schema = "generateFeedback" ->
            {[EmptyBody EXCEPT !.sessionId = sid] :
                sid \in SessionIds \cup {Absent, Malformed}}
      [] schema = "transcript" ->
            {[EmptyBody EXCEPT !.lines = n] : n \in {-1, 0, 2}}
      [] schema = "analyzeInterview" ->
            {[EmptyBody EXCEPT !.sessionId = sid, !.lines = n] :
                sid \in SessionIds \cup {Malformed}, n \in {0, 2}}
      [] schema = "token" ->
            {[EmptyBody EXCEPT !.sessionId = sid, !.phase = p] :
                sid \in {Absent, Malformed}, p \in {"absent", "intro", "done"}}
      [] schema = "upload" -> {[EmptyBody EXCEPT !.file = f] : f \in Files}
      [] OTHER -> {EmptyBody}

----------------------------------------------------------------------------
\* The Express server: routes

\* A route: whether requireAuth guards it, the schema its handler parses the
\* body with, what its catch block does with a ZodError ("400": answers 400,
\* "next": next(error)), and which handler action models its body
Route(path, auth, schema, zod, handler) ==
    [path |-> path, auth |-> auth, schema |-> schema, zod |-> zod,
     handler |-> handler]

AuthRoutes ==
    {Route("POST /api/auth/register", FALSE, "credentials", "400", "register"),
     Route("POST /api/auth/login", FALSE, "credentials", "400", "login"),
     Route("POST /api/auth/logout", FALSE, "none", "next", "other"),
     Route("GET /api/auth/check", TRUE, "none", "next", "me"),
     Route("GET /api/auth/me", TRUE, "none", "next", "me")}

InterviewRoutes ==
    {Route("GET /api/interviews", TRUE, "none", "next", "other"),
     Route("POST /api/interviews", TRUE, "createSession", "next", "other"),
     Route("GET /api/interviews/:id", TRUE, "none", "next", "sessionRead"),
     Route("GET /api/interviews/:id/metadata", TRUE, "none", "next", "sessionRead"),
     Route("PATCH /api/interviews/:id/metadata", TRUE, "updateMetadata", "next", "patchMetadata"),
     Route("PATCH /api/interviews/:id", TRUE, "updateSession", "next", "patchSession"),
     Route("POST /api/interviews/start", TRUE, "startInterview", "next", "start"),
     Route("POST /api/interviews/submit-answer", TRUE, "submitAnswer", "next", "submit"),
     Route("POST /api/interviews/generate-feedback", TRUE, "generateFeedback", "next", "feedback"),
     Route("GET /api/interviews/:id/questions", TRUE, "none", "next", "sessionRead"),
     Route("GET /api/interviews/:id/answers", TRUE, "none", "next", "sessionRead")}

ResumeRoutes ==
    {Route("POST /api/resumes", TRUE, "upload", "next", "upload"),
     Route("GET /api/resumes", TRUE, "none", "next", "other"),
     Route("GET /api/resumes/:id", TRUE, "none", "next", "getResume"),
     Route("DELETE /api/resumes/:id", TRUE, "none", "next", "deleteResume")}

AiRoutes ==
    {Route("POST /api/ai/analyze-interview", TRUE, "analyzeInterview", "next", "other"),
     Route("POST /api/ai/analyze", TRUE, "transcript", "next", "other"),
     Route("POST /api/ai/realtime-token", TRUE, "token", "next", "other")}

JobRoutes ==
    {Route("GET /api/jobs", FALSE, "none", "next", "other"),
     Route("GET /api/jobs/:id", FALSE, "none", "next", "other"),
     Route("POST /api/jobs/sync", FALSE, "none", "next", "other"),
     Route("POST /api/jobs/:id/save", TRUE, "none", "next", "other"),
     Route("DELETE /api/jobs/:id/save", TRUE, "none", "next", "other"),
     Route("GET /api/jobs/user/saved", TRUE, "none", "next", "other"),
     Route("POST /api/jobs/:id/apply", TRUE, "none", "next", "other"),
     Route("GET /api/jobs/user/applications", TRUE, "none", "next", "other")}

CompanyRoutes ==
    {Route("GET /api/companies", FALSE, "none", "next", "other"),
     Route("GET /api/companies/:id", FALSE, "none", "next", "other"),
     Route("POST /api/companies/:id/follow", TRUE, "none", "next", "other"),
     Route("DELETE /api/companies/:id/follow", TRUE, "none", "next", "other"),
     Route("GET /api/companies/user/following", TRUE, "none", "next", "other")}

Routes == AuthRoutes \cup InterviewRoutes \cup ResumeRoutes \cup AiRoutes
              \cup JobRoutes \cup CompanyRoutes

RegisterRoute == CHOOSE rt \in AuthRoutes : rt.handler = "register"
StartRoute == CHOOSE rt \in InterviewRoutes : rt.handler = "start"
SubmitRoute == CHOOSE rt \in InterviewRoutes : rt.handler = "submit"

\* The values of req.params.id a client sends to a route
Params(rt) ==
    IF rt.handler \in {"sessionRead", "patchMetadata", "patchSession"}
    THEN SessionIds \cup {Malformed}
    ELSE IF rt.handler \in {"getResume", "deleteResume"}
    THEN ResumeIds \cup {Malformed}
    ELSE {Absent}

----------------------------------------------------------------------------
\* Curated-job seeding (services/curated-job-service)

\* curatedJobSeeds: every seed has its own company name and its own externalId
Seeds == 1..MaxSeeds
Runs == 1..MaxRuns

\* Empty tables, no run started
SeedIdle ==
    /\ companies = [k \in Seeds |-> 0]
    /\ jobs = [k \in Seeds |-> 0]
    /\ seedingPromise = 0
    /\ runs = [i \in Runs |->
                 [pc |-> "free", seed |-> 1, found |-> FALSE, lazy |-> FALSE]]
    /\ lazyPending = FALSE
    /\ lastCall = [pending |-> 0, run |-> 0, started |-> FALSE]

\* Variant of the test below that always starts a run
NoRunPending_Always(p) == TRUE

\* !seedingPromise
NoRunPending(p) == p = 0

\* ensureCuratedJobsSeeded(): start a run unless one is pending, return its
\* promise.  A started run has issued its first query
Ensure ==
    IF NoRunPending(seedingPromise)
    THEN \E i \in Runs :
            /\ runs[i].pc = "free" /\ \A j \in 1..(i - 1) : runs[j].pc # "free"
            /\ runs' = [runs EXCEPT ![i] = [pc |-> "companyLookup", seed |-> 1,
                                            found |-> FALSE, lazy |-> TRUE]]
            /\ seedingPromise' = i
            /\ lastCall' = [pending |-> seedingPromise, run |-> i, started |-> TRUE]
    ELSE /\ lastCall' = [pending |-> seedingPromise, run |-> seedingPromise,
                         started |-> FALSE]
         /\ UNCHANGED <<runs, seedingPromise>>

\* GET /api/jobs and GET /api/jobs/:id up to their await
JobsList ==
    /\ Ensure
    /\ UNCHANGED <<companies, jobs, lazyPending, users, sessions, answers, resumes,
                   groqApiKey, reqs, served, voiceVars>>

\* GET /api/companies: SELECT COUNT(*) FROM companies returns 0
CompaniesCount ==
    /\ ~lazyPending
    /\ \A k \in Seeds : companies[k] = 0
    /\ lazyPending' = TRUE
    /\ UNCHANGED <<companies, jobs, seedingPromise, runs, lastCall, users, sessions,
                   answers, resumes, groqApiKey, reqs, served, voiceVars>>

\* GET /api/companies after the count: await ensureCuratedJobsSeeded()
CompaniesEnsure ==
    /\ lazyPending
    /\ lazyPending' = FALSE
    /\ Ensure
    /\ UNCHANGED <<companies, jobs, users, sessions, answers, resumes,
                   groqApiKey, reqs, served, voiceVars>>

\* POST /api/jobs/sync: seedCuratedJobs() starts a run of its own
Sync ==
    /\ \E i \in Runs :
          /\ runs[i].pc = "free" /\ \A j \in 1..(i - 1) : runs[j].pc # "free"
          /\ runs' = [runs EXCEPT ![i] = [pc |-> "companyLookup", seed |-> 1,
                                          found |-> FALSE, lazy |-> FALSE]]
    /\ UNCHANGED <<companies, jobs, seedingPromise, lazyPending, lastCall, users,
                   sessions, answers, resumes, groqApiKey, reqs, served, voiceVars>>

\* insertOrUpdateCuratedJob(): the database executes the query the run awaits
\* and the run goes on to its next await; a query that fails rejects the run.
\* When a lazy run settles, its finally() callback clears seedingPromise
InsertOrUpdateStep(i) ==
    LET run == runs[i]
        k == run.seed
        cleared == IF run.lazy THEN 0 ELSE seedingPromise
    IN /\ run.pc \in {"companyLookup", "companyWrite", "jobLookup", "jobWrite"}
       /\ \E ok \in BOOLEAN :
            IF ~ok
            THEN /\ runs' = [runs EXCEPT ![i].pc = "rejected"]
                 /\ seedingPromise' = cleared
                 /\ UNCHANGED <<companies, jobs>>
            ELSE CASE run.pc = "companyLookup" ->
                        /\ runs' = [runs EXCEPT ![i].pc = "companyWrite",
                                                ![i].found = companies[k] > 0]
                        /\ UNCHANGED <<companies, jobs, seedingPromise>>
                   [] run.pc = "companyWrite" ->
                        /\ companies' = IF run.found THEN companies
                                        ELSE [companies EXCEPT ![k] = @ + 1]
                        /\ runs' = [runs EXCEPT ![i].pc = "jobLookup"]
                        /\ UNCHANGED <<jobs, seedingPromise>>
                   [] run.pc = "jobLookup" ->
                        /\ runs' = [runs EXCEPT ![i].pc = "jobWrite",
                                                ![i].found = jobs[k] > 0]
                        /\ UNCHANGED <<companies, jobs, seedingPromise>>
                   [] OTHER ->
                        /\ jobs' = IF run.found THEN jobs
                                   ELSE [jobs EXCEPT ![k] = @ + 1]
                        /\ IF k < MaxSeeds
                           THEN /\ runs' = [runs EXCEPT ![i].pc = "companyLookup",
                                                        ![i].seed = k + 1]
                                /\ UNCHANGED seedingPromise
                           ELSE /\ runs' = [runs EXCEPT ![i].pc = "fulfilled"]
                                /\ seedingPromise' = cleared
                        /\ UNCHANGED companies
       /\ UNCHANGED <<lazyPending, lastCall, users, sessions, answers, resumes,
                      groqApiKey, reqs, served, voiceVars>>

----------------------------------------------------------------------------
\* The Express server: a request

\* pc: idle (slot free), auth (requireAuth is next), parse (the handler is
\* next), a handler's later steps, done (answered)
IdleRequest ==
    [pc |-> "idle", n |-> 0, route |-> RegisterRoute, cookie |-> NoToken,
     header |-> NoHeader, body |-> EmptyBody,
     user |-> 0, ran |-> FALSE, status |-> 0, setCookie |-> FALSE,
     token |-> NoToken, next |-> Absent, complete |-> FALSE, progress |-> 0,
     asked |-> 0, known |-> FALSE, ai |-> "none"]

ServerIdle ==
    /\ users = {}
    /\ sessions = <<>>
    /\ answers = {}
    /\ resumes = <<>>
    /\ groqApiKey = TRUE
    /\ reqs = [r \in Requests |-> IdleRequest]
    /\ served = 0
    /\ SeedIdle

\* Variant of the query below that finds no row
Registered_Never(em) == FALSE

\* SELECT id FROM users WHERE email = $1 returns a row
Registered(em) == \E u \in users : u.email = em

\* users.email is UNIQUE: an INSERT of this address would be refused
UniqueEmailViolated(em) == \E u \in users : u.email = em

\* History: the address, compared without regard to case, is registered
AlreadyRegistered(em) ==
    \E u \in users : toLowerCase(u.email) = toLowerCase(Trim(em))

\* History: the question already has a stored answer
AlreadyAnswered(qid) == \E a \in answers : a.question = qid

\* A request arrives: the server starts on it in a free slot
Accept(r, rt, cookie, header, body) ==
    /\ reqs[r].pc = "idle"
    /\ served' = served + 1
    /\ reqs' = [reqs EXCEPT ![r] =
          [IdleRequest EXCEPT
              !.pc = IF rt.auth THEN "auth" ELSE "parse",
              !.n = served + 1,
              !.route = rt, !.cookie = cookie, !.header = header, !.body = body,
              !.known = \/ AlreadyRegistered(body.email)
                        \/ rt.handler = "submit" /\ AlreadyAnswered(body.questionId)]]
    /\ UNCHANGED <<users, sessions, answers, resumes, groqApiKey, seedVars, voiceVars>>

\* A request arrives, within the bounds of the model
Arrive(r, rt, cookie, header, body) ==
    /\ served < MaxServed
    /\ rt.handler = "start" =>
          Len(sessions) + Cardinality({q \in Requests :
              reqs[q].pc \in {"auth", "parse"} /\ reqs[q].route.handler = "start"})
            < MaxSessions
    /\ rt.handler = "upload" =>
          Len(resumes) + Cardinality({q \in Requests :
              reqs[q].pc \in {"auth", "parse"} /\ reqs[q].route.handler = "upload"})
            < MaxResumes
    /\ Accept(r, rt, cookie, header, body)

\* Any request, while no other request is in flight.  Credentials are varied
\* on the routes that look at them
ArriveAlone ==
    /\ \A q \in Requests : reqs[q].pc = "idle"
    /\ \E rt \in Routes, cookie \in Cookies, header \in Headers :
         /\ rt.auth \/ (cookie = NoToken /\ header = NoHeader)
         /\ \E body \in Bodies(rt.schema), id \in Params(rt) :
               Arrive(1, rt, cookie, header, [body EXCEPT !.id = id])

\* A request to upload, fetch or delete a resume from a signed-in client,
\* whatever else is in flight
ArriveResume ==
    \E r \in Requests, u \in 1..MaxUsers, rt \in ResumeRoutes :
        /\ rt.handler # "other"
        /\ \E body \in Bodies(rt.schema), id \in Params(rt) :
             Arrive(r, rt, buildToken(u), NoHeader, [body EXCEPT !.id = id])

\* A registration request, whatever else is in flight
ArriveRegister ==
    \E r \in Requests, body \in Bodies("credentials") :
        Arrive(r, RegisterRoute, NoToken, NoHeader, body)

\* A request of the question-and-answer flow (POST /start, POST
\* /submit-answer) with a well-formed body from a signed-in client, whatever
\* else is in flight
ArriveInterview ==
    \E r \in Requests, u \in 1..MaxUsers :
        \/ \E body \in Bodies("startInterview") :
             /\ Parses("startInterview", body)
             /\ Arrive(r, StartRoute, buildToken(u), NoHeader, body)
        \/ \E body \in Bodies("submitAnswer") :
             /\ Parses("submitAnswer", body)
             /\ Arrive(r, SubmitRoute, buildToken(u), NoHeader, body)

\* The routes that work on one interview session
OwnerHandlers ==
    {"start", "submit", "sessionRead", "patchMetadata", "patchSession", "feedback"}

\* A request on an interview session with a well-formed body and id from a
\* signed-in client, while no other request is in flight
ArriveOwner ==
    /\ \A q \in Requests : reqs[q].pc = "idle"
    /\ served < MaxOwnerServed
    /\ \E u \in 1..MaxUsers, rt \in InterviewRoutes :
         /\ rt.handler \in OwnerHandlers
         /\ rt.handler = "start" => Len(sessions) < MaxSessions
         /\ \E body \in Bodies(rt.schema), id \in Params(rt) \ {Malformed} :
               /\ Parses(rt.schema, body)
               /\ Accept(1, rt, buildToken(u), NoHeader, [body EXCEPT !.id = id])

\* The response has left and the request is forgotten
Deliver ==
    \E r \in Requests :
        /\ reqs[r].pc = "done"
        /\ reqs' = [reqs EXCEPT ![r] = IdleRequest]
        /\ UNCHANGED <<users, sessions, answers, served, resumes, groqApiKey, seedVars, voiceVars>>

\* res.status(code).json(...) ends the request
Answer(req, code) == [req EXCEPT !.pc = "done", !.status = code]

\* The global error handler of index.ts
ErrorHandler(req) == Answer(req, 500)

\* The token requireAuth looks at: the cookie first, then the Bearer header
PresentedToken(req) ==
    IF req.cookie.present THEN req.cookie
    ELSE IF req.header.scheme = "Bearer" THEN req.header.tok
    ELSE NoToken

\* middleware/auth.ts requireAuth
requireAuth(r) ==
    /\ reqs[r].pc = "auth"
    /\ LET req == reqs[r]
           tok == PresentedToken(req)
       IN reqs' = [reqs EXCEPT ![r] =
            IF ~tok.present THEN Answer(req, 401)
            ELSE IF Verify(tok) THEN [req EXCEPT !.pc = "parse", !.user = tok.sub]
            ELSE Answer(req, 401)]
    /\ UNCHANGED <<users, sessions, answers, served, resumes, groqApiKey, seedVars, voiceVars>>

\* What a handler's catch block does with the ZodError of schema.parse
ZodRejected(req) ==
    IF req.route.zod = "400" THEN Answer(req, 400) ELSE ErrorHandler(req)

\* The handler starts: schema.parse(req.body)
Parsed(req) == Parses(req.route.schema, req.body)

----------------------------------------------------------------------------
\* The Express server: handlers

\* Statuses the handlers that are not followed further answer with
OtherOutcomes == {200, 201, 400, 403, 404, 500}

\* Any handler whose body is not followed further: it validates, then runs
HandleOther(r) ==
    /\ reqs[r].pc = "parse"
    /\ reqs[r].route.handler = "other"
    /\ LET req == [reqs[r] EXCEPT !.ran = TRUE]
       IN IF ~Parsed(req)
          THEN reqs' = [reqs EXCEPT ![r] = ZodRejected(req)]
          ELSE \E code \in OtherOutcomes : reqs' = [reqs EXCEPT ![r] = Answer(req, code)]
    /\ UNCHANGED <<users, sessions, answers, served, resumes, groqApiKey, seedVars, voiceVars>>

\* The address a credentials body is looked up and stored under
AccountEmail(req) == toLowerCase(Trim(req.body.email))

\* POST /register up to the result of SELECT id FROM users WHERE email = $1
RegisterSelect(r) ==
    /\ reqs[r].pc = "parse"
    /\ reqs[r].route.handler = "register"
    /\ LET req == [reqs[r] EXCEPT !.ran = TRUE]
       IN reqs' = [reqs EXCEPT ![r] =
            IF ~Parsed(req) THEN ZodRejected(req)
            ELSE IF Registered(AccountEmail(req)) THEN Answer(req, 409)
            ELSE [req EXCEPT !.pc = "insert"]]
    /\ UNCHANGED <<users, sessions, answers, served, resumes, groqApiKey, seedVars, voiceVars>>

\* POST /register from INSERT INTO users to the response.  The table's
\* UNIQUE(email) makes the INSERT throw, and the catch block passes what is
\* not a ZodError to next(error)
RegisterInsert(r) ==
    /\ reqs[r].pc = "insert"
    /\ LET req == reqs[r]
           userId == req.n
       IN IF UniqueEmailViolated(AccountEmail(req))
          THEN /\ reqs' = [reqs EXCEPT ![r] = ErrorHandler(req)]
               /\ UNCHANGED users
          ELSE /\ users' = users \cup {[id |-> userId, email |-> AccountEmail(req),
                                        password |-> req.body.password]}
               /\ reqs' = [reqs EXCEPT ![r] =
                    [Answer(req, 201) EXCEPT !.token = buildToken(userId),
                                             !.setCookie = TRUE]]
    /\ UNCHANGED <<sessions, answers, served, resumes, groqApiKey, seedVars, voiceVars>>

\* POST /login
Login(r) ==
    /\ reqs[r].pc = "parse"
    /\ reqs[r].route.handler = "login"
    /\ LET req == [reqs[r] EXCEPT !.ran = TRUE]
           rows == {u \in users : u.email = AccountEmail(req)}
       IN reqs' = [reqs EXCEPT ![r] =
            IF ~Parsed(req) THEN ZodRejected(req)
            ELSE IF rows = {} THEN Answer(req, 401)
            ELSE LET user == CHOOSE u \in rows : TRUE
                 IN IF user.password # req.body.password THEN Answer(req, 401)
                    ELSE [Answer(req, 200) EXCEPT !.token = buildToken(user.id),
                                                  !.setCookie = TRUE]]
    /\ UNCHANGED <<users, sessions, answers, served, resumes, groqApiKey, seedVars, voiceVars>>

\* Variant of the generator below that returns one question too few
GeneratedQuestions_Short(numberOfQuestions) == numberOfQuestions - 1

\* generateInterviewQuestions({numberOfQuestions}): how many questions come back
GeneratedQuestions(numberOfQuestions) == numberOfQuestions

\* users has a row with this id (user_id REFERENCES users(id))
UserExists(id) == \E u \in users : u.id = id

\* POST /start: the session row, its metadata and its questions.
\* accepted (history): the submit-answer requests answered 200
StartInterview(r) ==
    /\ reqs[r].pc = "parse"
    /\ reqs[r].route.handler = "start"
    /\ LET req == [reqs[r] EXCEPT !.ran = TRUE]
       IN IF ~Parsed(req)
          THEN /\ reqs' = [reqs EXCEPT ![r] = ZodRejected(req)]
               /\ UNCHANGED sessions
          ELSE IF ~groqApiKey
          THEN /\ reqs' = [reqs EXCEPT ![r] = Answer(req, 500)]
               /\ UNCHANGED sessions
          ELSE IF ~UserExists(req.user)
          THEN /\ reqs' = [reqs EXCEPT ![r] = ErrorHandler(req)]
               /\ UNCHANGED sessions
          ELSE /\ sessions' = Append(sessions,
                     [user |-> req.user, questions |-> GeneratedQuestions(NUM_QUESTIONS),
                      questionsAsked |-> 0, currentQuestionNumber |-> 1,
                      totalQuestions |-> TOTAL_QUESTIONS,
                      phase |-> "interviewing", status |-> "in_progress",
                      feedback |-> FALSE, score |-> -1,
                      accepted |-> 0])
               /\ reqs' = [reqs EXCEPT ![r] =
                     [Answer(req, 201) EXCEPT
                         !.next = QuestionId(Len(sessions) + 1, 1),
                         !.progress = GeneratedQuestions(NUM_QUESTIONS)]]
    /\ UNCHANGED <<users, answers, served, resumes, groqApiKey, seedVars, voiceVars>>

\* getSessionQuestions(sessionId): the session's questions by question_number
getSessionQuestions(sid) ==
    [k \in 1..sessions[sid[1]].questions |-> QuestionId(sid[1], k)]

\* allQuestions.findIndex(q => q.id === questionId), counted from 1; 0: none
FindIndex(all, qid) ==
    IF \E i \in DOMAIN all : all[i] = qid
    THEN CHOOSE i \in DOMAIN all : all[i] = qid /\ \A j \in 1..(i - 1) : all[j] # qid
    ELSE 0

\* Variant of the expression below that returns the question just answered
NextQuestion_Same(all, i) == IF i \in DOMAIN all THEN all[i] ELSE Absent

\* allQuestions[currentQuestionIndex + 1] || null, i counted from 1
NextQuestion(all, i) == IF i + 1 \in DOMAIN all THEN all[i + 1] ELSE Absent

\* POST /submit-answer up to the result of the session SELECT
SubmitCheck(r) ==
    /\ reqs[r].pc = "parse"
    /\ reqs[r].route.handler = "submit"
    /\ LET req == [reqs[r] EXCEPT !.ran = TRUE]
           s == req.body.sessionId[1]
       IN reqs' = [reqs EXCEPT ![r] =
            IF ~Parsed(req) THEN ZodRejected(req)
            ELSE IF s \notin DOMAIN sessions \/ sessions[s].user # req.user
                 THEN Answer(req, 404)
            ELSE [req EXCEPT !.pc = "store", !.asked = sessions[s].questionsAsked]]
    /\ UNCHANGED <<users, sessions, answers, served, resumes, groqApiKey, seedVars, voiceVars>>

\* The question row exists (interview_answers.question_id REFERENCES it)
QuestionExists(qid) ==
    /\ Len(qid) = 2
    /\ qid[1] \in DOMAIN sessions
    /\ qid[2] \in 1..sessions[qid[1]].questions

\* POST /submit-answer: createInterviewAnswer, getSessionQuestions, findIndex.
\* The INSERT throws on UNIQUE(question_id) and on the foreign key
SubmitStore(r) ==
    /\ reqs[r].pc = "store"
    /\ LET req == reqs[r]
           qid == req.body.questionId
           all == getSessionQuestions(req.body.sessionId)
       IN IF ~QuestionExists(qid) \/ \E a \in answers : a.question = qid
          THEN /\ reqs' = [reqs EXCEPT ![r] = ErrorHandler(req)]
               /\ UNCHANGED answers
          ELSE /\ answers' = answers \cup
                     {[session |-> req.body.sessionId, question |-> qid,
                       by |-> req.n, user |-> req.user]}
               /\ reqs' = [reqs EXCEPT ![r] =
                     IF FindIndex(all, qid) = 0 THEN Answer(req, 400)
                     ELSE [req EXCEPT !.pc = "update",
                                      !.progress = FindIndex(all, qid)]]
    /\ UNCHANGED <<users, sessions, served, resumes, groqApiKey, seedVars, voiceVars>>

\* POST /submit-answer: UPDATE interview_sessions SET metadata, the response
SubmitRespond(r) ==
    /\ reqs[r].pc = "update"
    /\ LET req == reqs[r]
           s == req.body.sessionId[1]
           all == getSessionQuestions(req.body.sessionId)
           nextQuestion == NextQuestion(all, req.progress)
       IN /\ sessions' = [sessions EXCEPT
                 ![s].questionsAsked = req.asked + 1,
                 ![s].currentQuestionNumber = req.progress + 1,
                 ![s].accepted = @ + 1]
          /\ reqs' = [reqs EXCEPT ![r] =
                 [Answer(req, 200) EXCEPT !.next = nextQuestion,
                                          !.complete = (nextQuestion = Absent)]]
    /\ UNCHANGED <<users, answers, served, resumes, groqApiKey, seedVars, voiceVars>>

\* SELECT ... FROM interview_sessions WHERE id = $1 AND user_id = $2 has a row
SessionOwned(id, user) ==
    /\ Len(id) = 1 /\ id[1] \in DOMAIN sessions
    /\ sessions[id[1]].user = user

\* GET /:id, GET /:id/metadata, GET /:id/questions, GET /:id/answers.
\* Postgres refuses a string that is not a UUID and the query throws
SessionRead(r) ==
    /\ reqs[r].pc = "parse"
    /\ reqs[r].route.handler = "sessionRead"
    /\ LET req == [reqs[r] EXCEPT !.ran = TRUE]
       IN reqs' = [reqs EXCEPT ![r] =
            IF ~IsUuid(req.body.id) THEN ErrorHandler(req)
            ELSE IF ~SessionOwned(req.body.id, req.user) THEN Answer(req, 404)
            ELSE Answer(req, 200)]
    /\ UNCHANGED <<users, sessions, answers, served, resumes, groqApiKey, seedVars, voiceVars>>

\* PATCH /:id/metadata: updateInterviewMetadata throws when its SELECT finds
\* no row
PatchMetadata(r) ==
    /\ reqs[r].pc = "parse"
    /\ reqs[r].route.handler = "patchMetadata"
    /\ LET req == [reqs[r] EXCEPT !.ran = TRUE]
           id == req.body.id
       IN IF ~Parsed(req)
          THEN /\ reqs' = [reqs EXCEPT ![r] = ZodRejected(req)]
               /\ UNCHANGED sessions
          ELSE IF ~IsUuid(id) \/ ~SessionOwned(id, req.user)
          THEN /\ reqs' = [reqs EXCEPT ![r] = ErrorHandler(req)]
               /\ UNCHANGED sessions
          ELSE /\ sessions' = [sessions EXCEPT ![id[1]].phase =
                     IF req.body.phase = "absent" THEN @ ELSE req.body.phase]
               /\ reqs' = [reqs EXCEPT ![r] = Answer(req, 200)]
    /\ UNCHANGED <<users, answers, served, resumes, groqApiKey, seedVars, voiceVars>>

\* PATCH /:id: 400 without updates, then UPDATE ... WHERE user_id AND id
PatchSession(r) ==
    /\ reqs[r].pc = "parse"
    /\ reqs[r].route.handler = "patchSession"
    /\ LET req == [reqs[r] EXCEPT !.ran = TRUE]
           id == req.body.id
       IN IF ~Parsed(req)
          THEN /\ reqs' = [reqs EXCEPT ![r] = ZodRejected(req)]
               /\ UNCHANGED sessions
          ELSE IF req.body.score = -1
          THEN /\ reqs' = [reqs EXCEPT ![r] = Answer(req, 400)]
               /\ UNCHANGED sessions
          ELSE IF ~IsUuid(id)
          THEN /\ reqs' = [reqs EXCEPT ![r] = ErrorHandler(req)]
               /\ UNCHANGED sessions
          ELSE IF ~SessionOwned(id, req.user)
          THEN /\ reqs' = [reqs EXCEPT ![r] = Answer(req, 404)]
               /\ UNCHANGED sessions
          ELSE /\ sessions' = [sessions EXCEPT ![id[1]].score = req.body.score]
               /\ reqs' = [reqs EXCEPT ![r] = Answer(req, 200)]
    /\ UNCHANGED <<users, answers, served, resumes, groqApiKey, seedVars, voiceVars>>

\* generateInterviewFeedback(sessionId): feedback is produced from whatever
\* questions and answers the session has
FeedbackGenerated(sid) == TRUE

\* POST /generate-feedback: generateInterviewFeedback, then
\* completeInterviewWithFeedback marks the session completed
GenerateFeedback(r) ==
    /\ reqs[r].pc = "parse"
    /\ reqs[r].route.handler = "feedback"
    /\ LET req == [reqs[r] EXCEPT !.ran = TRUE]
           sid == req.body.sessionId
       IN IF ~Parsed(req)
          THEN /\ reqs' = [reqs EXCEPT ![r] = ZodRejected(req)]
               /\ UNCHANGED sessions
          ELSE IF ~groqApiKey
          THEN /\ reqs' = [reqs EXCEPT ![r] = Answer(req, 500)]
               /\ UNCHANGED sessions
          ELSE IF ~SessionOwned(sid, req.user)
          THEN /\ reqs' = [reqs EXCEPT ![r] = Answer(req, 404)]
               /\ UNCHANGED sessions
          ELSE IF ~FeedbackGenerated(sid)
          THEN /\ reqs' = [reqs EXCEPT ![r] = ErrorHandler(req)]
               /\ UNCHANGED sessions
          ELSE /\ sessions' = [sessions EXCEPT ![sid[1]].feedback = TRUE,
                                               ![sid[1]].status = "completed"]
               /\ reqs' = [reqs EXCEPT ![r] = Answer(req, 200)]
    /\ UNCHANGED <<users, answers, served, resumes, groqApiKey, seedVars, voiceVars>>

\* GET /check and GET /me answer with req.user
Me(r) ==
    /\ reqs[r].pc = "parse"
    /\ reqs[r].route.handler = "me"
    /\ reqs' = [reqs EXCEPT ![r] = Answer([reqs[r] EXCEPT !.ran = TRUE], 200)]
    /\ UNCHANGED <<users, sessions, answers, served, resumes, groqApiKey, seedVars, voiceVars>>

\* SELECT ... FROM resumes WHERE user_id = $1 AND id = $2 has a row
ResumeOwned(id, user) ==
    /\ Len(id) = 1 /\ id[1] \in DOMAIN resumes
    /\ resumes[id[1]].user = user /\ ~resumes[id[1]].deleted

\* GET /api/resumes/:id and DELETE /api/resumes/:id
ResumeById(r) ==
    /\ reqs[r].pc = "parse"
    /\ reqs[r].route.handler \in {"getResume", "deleteResume"}
    /\ LET req == [reqs[r] EXCEPT !.ran = TRUE]
           id == req.body.id
       IN IF ~IsUuid(id)
          THEN /\ reqs' = [reqs EXCEPT ![r] = ErrorHandler(req)]
               /\ UNCHANGED resumes
          ELSE IF ~ResumeOwned(id, req.user)
          THEN /\ reqs' = [reqs EXCEPT ![r] = Answer(req, 404)]
               /\ UNCHANGED resumes
          ELSE IF req.route.handler = "getResume"
          THEN /\ reqs' = [reqs EXCEPT ![r] = Answer(req, 200)]
               /\ UNCHANGED resumes
          ELSE /\ resumes' = [resumes EXCEPT ![id[1]].deleted = TRUE]
               /\ reqs' = [reqs EXCEPT ![r] = Answer(req, 204)]
    /\ UNCHANGED <<users, sessions, answers, served, groqApiKey, seedVars, voiceVars>>

\* analyzeResumeWithAI: the response has content, JSON.parse succeeds, and
\* overallScore and atsScore are numbers
AiResponseValid(ai) == ai = "valid"

\* POST /api/resumes: multer, analyzeResume, INSERT INTO resumes.
\* mock: the stored analysis is the built-in one
UploadResume(r) ==
    /\ reqs[r].pc = "parse"
    /\ reqs[r].route.handler = "upload"
    /\ LET req == [reqs[r] EXCEPT !.ran = TRUE]
           file == req.body.file
       IN IF file = "pdf"
          THEN /\ reqs' = [reqs EXCEPT ![r] = ErrorHandler(req)]
               /\ UNCHANGED resumes
          ELSE IF file = "none" \/ file = "unreadable"
          THEN /\ reqs' = [reqs EXCEPT ![r] = Answer(req, 400)]
               /\ UNCHANGED resumes
          ELSE \E ai \in IF groqApiKey THEN AiResponses ELSE {"none"} :
                 LET asked == [req EXCEPT !.ai = ai]
                 IN IF groqApiKey /\ ~AiResponseValid(ai)
                    THEN /\ reqs' = [reqs EXCEPT ![r] = Answer(asked, 400)]
                         /\ UNCHANGED resumes
                    ELSE IF ~UserExists(req.user)
                    THEN /\ reqs' = [reqs EXCEPT ![r] = Answer(asked, 401)]
                         /\ UNCHANGED resumes
                    ELSE /\ resumes' = Append(resumes,
                               [user |-> req.user, mock |-> ~groqApiKey,
                                deleted |-> FALSE, by |-> req.n])
                         /\ reqs' = [reqs EXCEPT ![r] = Answer(asked, 201)]
    /\ UNCHANGED <<users, sessions, answers, served, groqApiKey, seedVars, voiceVars>>

----------------------------------------------------------------------------
\* Specifications

\* The server after start-up, no voice system running
ServerInit == VoiceInit /\ sys = "Browser" /\ ServerIdle

\* The account that request 1, a POST /register, has created
FirstAccount == [id |-> 1, email |-> <<"a", "@", "x">>, password |-> PASSWORD_MIN]

\* One account is registered and the response to its request delivered
OneAccount ==
    /\ users = {FirstAccount}
    /\ sessions = <<>>
    /\ answers = {}
    /\ resumes = <<>>
    /\ reqs = [r \in Requests |-> IdleRequest]
    /\ served = 1
    /\ SeedIdle

\* The account that request 2, a POST /register, has created
SecondAccount == [id |-> 2, email |-> <<"b", "@", "x">>, password |-> PASSWORD_MIN]

\* Two accounts are registered and the responses delivered
TwoAccounts ==
    /\ users = {FirstAccount, SecondAccount}
    /\ sessions = <<>>
    /\ answers = {}
    /\ resumes = <<>>
    /\ reqs = [r \in Requests |-> IdleRequest]
    /\ served = 2
    /\ SeedIdle

\* The server with two accounts, the AI provider configured
OwnerInit == VoiceInit /\ sys = "Browser" /\ TwoAccounts /\ groqApiKey = TRUE

\* The server with one account, the AI provider configured
SeededInit == VoiceInit /\ sys = "Browser" /\ OneAccount /\ groqApiKey = TRUE

\* The server with one account, with or without GROQ_API_KEY in its environment
ResumeInit == VoiceInit /\ sys = "Browser" /\ OneAccount /\ groqApiKey \in BOOLEAN

ApiNext ==
    \/ ArriveAlone
    \/ Deliver
    \/ \E r \in Requests :
         \/ requireAuth(r)
         \/ HandleOther(r)
         \/ RegisterSelect(r) \/ RegisterInsert(r) \/ Login(r)
         \/ StartInterview(r)
         \/ SubmitCheck(r) \/ SubmitStore(r) \/ SubmitRespond(r)
         \/ SessionRead(r) \/ PatchMetadata(r) \/ PatchSession(r)
         \/ GenerateFeedback(r)
         \/ Me(r)
         \/ ResumeById(r) \/ UploadResume(r)

\* Requests served one after the other, on every route
ApiSpec == SeededInit /\ [][ApiNext]_vars

RegisterNext ==
    \/ ArriveRegister
    \/ \E r \in Requests : RegisterSelect(r) \/ RegisterInsert(r)

\* Registration requests that overlap
RegisterSpec == ServerInit /\ [][RegisterNext]_vars

InterviewNext ==
    \/ ArriveInterview
    \/ Deliver
    \/ \E r \in Requests :
         \/ requireAuth(r)
         \/ StartInterview(r)
         \/ SubmitCheck(r) \/ SubmitStore(r) \/ SubmitRespond(r)

\* Requests of the question-and-answer flow that overlap
InterviewSpec == SeededInit /\ [][InterviewNext]_vars

ResumeNext ==
    \/ ArriveResume
    \/ Deliver
    \/ \E r \in Requests : requireAuth(r) \/ UploadResume(r) \/ ResumeById(r)

OwnerNext ==
    \/ ArriveOwner
    \/ Deliver
    \/ \E r \in Requests :
         \/ requireAuth(r)
         \/ StartInterview(r)
         \/ SubmitCheck(r) \/ SubmitStore(r) \/ SubmitRespond(r)
         \/ SessionRead(r) \/ PatchMetadata(r) \/ PatchSession(r)
         \/ GenerateFeedback(r)

\* Two signed-in users working on interview sessions, one request at a time
OwnerSpec == OwnerInit /\ [][OwnerNext]_vars

\* The server after start-up on empty tables
SeedInit == VoiceInit /\ sys = "Browser" /\ ServerIdle

SeedNext ==
    \/ JobsList
    \/ CompaniesCount
    \/ CompaniesEnsure
    \/ Sync
    \/ \E i \in Runs : InsertOrUpdateStep(i)

\* List requests and POST /api/jobs/sync that overlap
SeedSpec == SeedInit /\ [][SeedNext]_vars

\* Resume requests that overlap
ResumeSpec == ResumeInit /\ [][ResumeNext]_vars

\* A Natural system constructed with any experience level and any outcome of
\* Math.random()
BankInit == Constructed(RANDOM_SPAN - 1) /\ sys = "Natural" /\ ServerIdle

BankNext == AskNextOnly

\* The question counter of a natural interview, from construction to completion
BankSpec == BankInit /\ [][BankNext]_vars

VoiceNext ==
    \/ Initialize \/ Start \/ Stop
    \/ NameWaitElapsed \/ FirstQuestion \/ Respond
    \/ UtteranceEnd \/ UtteranceError \/ UtteranceCancelled
    \/ RtVadSample \/ RtSilenceElapsed \/ NatVadSample \/ NatSilenceElapsed
    \/ OnResult \/ OnError \/ OnEnd \/ Restart
    \/ BrowserStart \/ BrowserStop
    \/ Tick

\* A page with one voice system, no request at the server
PageInit == VoiceInit /\ ServerIdle

VoiceSpec == PageInit /\ [][VoiceNext]_vars

\* The browser's timers, the sampler interval and the synthesizer keep running
VoiceFairSpec ==
    /\ VoiceSpec
    /\ WF_vars(Tick)
    /\ WF_vars(RtVadSample) /\ WF_vars(NatVadSample)
    /\ WF_vars(RtSilenceElapsed) /\ WF_vars(NatSilenceElapsed)
    /\ WF_vars(NameWaitElapsed) /\ WF_vars(FirstQuestion) /\ WF_vars(Respond)
    /\ WF_vars(Restart)
    /\ WF_vars(UtteranceEnd) /\ WF_vars(UtteranceCancelled)
    /\ WF_vars(OnEnd)

----------------------------------------------------------------------------
\* Claims about the voice systems

\* this step hands the buffered speech to processUserResponse
Handed == NonBlank(userSpeechBuffer) /\ userSpeechBuffer' = <<>>
\* this step is a sampler callback that evaluated the level and found speech
LoudSample == vadDue /\ ~vadDue' /\ sinceSound' = 0
\* this step sets isUserSpeaking to true
UserSpeakingRaised == ~isUserSpeaking /\ isUserSpeaking'

\* C1: while isAISpeaking is true the sampler does not evaluate the audio
\* level, isUserSpeaking is not set to true and no user response is handed to
\* processUserResponse, also not by a silence timer armed before playback.
C1_NoUserAudioWhileAISpeaks ==
    [][isAISpeaking => ~LoudSample /\ ~UserSpeakingRaised /\ ~Handed]_vars

\* C2: processUserResponse is called only when the sampler has observed no
\* level above the speech threshold during the preceding SILENCE_DURATION ms.
C2_HandedAfterSilence ==
    [][Handed => sinceSound * VAD_PERIOD >= SILENCE_DURATION]_vars

\* C2 witness: processUserResponse has just been called (its 500 ms wait is
\* whole) after speech was heard and then SILENCE_DURATION ms of silence.
C2_Witness ==
    /\ \E r \in timers : r.k = "respond" /\ r.t = Ticks(RESPOND_DELAY)
    /\ sinceSound * VAD_PERIOD >= SILENCE_DURATION
    /\ ~isAISpeaking
    /\ stage = "running"

\* C3: final speech buffered while the conversation is active and the AI is
\* silent is eventually handed to processUserResponse if the user stays silent.
C3_Buffered ==
    /\ NonBlank(userSpeechBuffer)
    /\ conversationActive
    /\ ~isAISpeaking
    /\ ~isUserSpeaking
C3_TurnSwitchLive ==
    [](C3_Buffered => <>(userSpeechBuffer = <<>> \/ isUserSpeaking
                         \/ ~conversationActive))

\* C4: isAISpeaking and isUserSpeaking are never both true.
C4_ThreeStateSwitch == ~(isAISpeaking /\ isUserSpeaking)

C18_AskedEqualsTotal ==
    (sys = "Natural" /\ currentQuestionIndex >= bankSize) =>
        /\ currentQuestionIndex >= 8 /\ currentQuestionIndex <= 20
        /\ currentQuestionIndex = totalQuestions

\* this step is processUserResponse, after its wait, on an answer of fewer
\* than 8 words
ProcessedShort ==
    /\ sys = "Natural"
    /\ \E r \in Due("respond") : r.w < SHORT_ANSWER_WORDS /\ r \notin timers'

\* C19: whenever the Natural system processes an answer of fewer than 8
\* words, it asks the user to elaborate and currentQuestionIndex is unchanged.
C19_ShortAnswerElaborates ==
    [][ProcessedShort =>
          /\ currentQuestionIndex' = currentQuestionIndex
          /\ synth' # <<>> /\ synth'[Len(synth')] = Utterance("brief")]_vars

\* C23: once stop() has run on the Natural system, no step starts an AI
\* utterance, fires onQuestionAsked (which askNextQuestion does when it
\* increments currentQuestionIndex) or leaves isAISpeaking true.
C23_SilentAfterStop ==
    [][(sys = "Natural" /\ stage = "stopped") =>
          /\ ~isAISpeaking'
          /\ currentQuestionIndex' = currentQuestionIndex
          /\ Len(synth') <= Len(synth)]_vars

\* this step is a restart callback whose guard lets it call
\* recognition.start()
StartInvoked ==
    /\ sys \in {"Realtime", "Natural"}
    /\ \E r \in timers :
          /\ r.k \in RestartKinds /\ r.t = 0
          /\ timers' = timers \ {r}
          /\ RestartGuard(r.k)

\* C24: no restart callback (after an error, after onend, 300 ms after an
\* utterance ended) calls recognition.start() while isAISpeaking is true.
C24_NoStartWhileSpeaking ==
    [][StartInvoked => ~isAISpeaking]_vars

\* C25: in the Natural system, when currentQuestionIndex is incremented past
\* a bank question, that question is no longer being spoken and the step is
\* processUserResponse handling a user response.
C25_NoQuestionSkipped ==
    [][(/\ sys = "Natural" /\ currentQuestionIndex >= 1
        /\ currentQuestionIndex' = currentQuestionIndex + 1) =>
          /\ \A i \in DOMAIN synth : synth[i] # Utterance("question")
          /\ \E r \in Due("respond") : r \notin timers']_vars

----------------------------------------------------------------------------
\* Claims about the server

\* The request carries a cookie or a Bearer token that jwt.verify accepts
HasValidToken(req) ==
    \/ req.cookie.present /\ req.cookie.signed /\ ~req.cookie.expired
    \/ /\ req.header.scheme = "Bearer"
       /\ req.header.tok.present /\ req.header.tok.signed /\ ~req.header.tok.expired

\* C6: a request to an endpoint guarded by requireAuth that carries no valid
\* accessToken cookie or Bearer token never runs the handler and is answered 401.
C6_AuthRequired ==
    \A r \in Requests :
        (reqs[r].pc # "idle" /\ reqs[r].route.auth /\ ~HasValidToken(reqs[r])) =>
            /\ ~reqs[r].ran
            /\ reqs[r].pc \in {"auth", "done"}
            /\ reqs[r].pc = "done" => reqs[r].status = 401

\* C6 witness: a guarded endpoint has answered 401 to a forged Bearer token
C6_Witness ==
    \E r \in Requests :
        /\ reqs[r].pc = "done" /\ reqs[r].status = 401
        /\ reqs[r].route.auth
        /\ ~reqs[r].cookie.present
        /\ reqs[r].header.scheme = "Bearer" /\ reqs[r].header.tok.present
        /\ ~reqs[r].ran

\* C7: a well-formed POST /api/auth/register for an address that was already
\* registered (compared after lower-casing) when it arrived is answered 409,
\* inserts no row and issues neither token nor cookie.
C7_DuplicateRegister ==
    \A r \in Requests :
        (/\ reqs[r].pc # "idle"
         /\ reqs[r].route.handler = "register"
         /\ reqs[r].known
         /\ Parsed(reqs[r])) =>
            /\ reqs[r].pc \in {"parse", "done"}
            /\ reqs[r].pc = "done" => reqs[r].status = 409
            /\ ~reqs[r].setCookie /\ ~reqs[r].token.present
            /\ \A u \in users : u.id # reqs[r].n

\* C7 witness: 409 for an address registered under another spelling
C7_Witness ==
    \E r \in Requests :
        /\ reqs[r].pc = "done" /\ reqs[r].status = 409
        /\ reqs[r].route.handler = "register"
        /\ reqs[r].known
        /\ \A u \in users : u.email # reqs[r].body.email
        /\ Cardinality(users) = 1

\* C8: of two well-formed registrations for the same new address that overlap,
\* exactly one is answered 201 and the other 409, and one row holds the address.
C8_ConcurrentRegister ==
    \A r1, r2 \in Requests :
        (/\ r1 # r2
         /\ reqs[r1].pc = "done" /\ reqs[r2].pc = "done"
         /\ reqs[r1].route.handler = "register"
         /\ reqs[r2].route.handler = "register"
         /\ Parsed(reqs[r1]) /\ Parsed(reqs[r2])
         /\ ~reqs[r1].known /\ ~reqs[r2].known
         /\ AccountEmail(reqs[r1]) = AccountEmail(reqs[r2])) =>
            /\ {reqs[r1].status, reqs[r2].status} = {201, 409}
            /\ Cardinality({u \in users : u.email = AccountEmail(reqs[r1])}) = 1

\* C9: every request whose body fails the handler's Zod schema is answered 400.
C9_ValidationIs400 ==
    \A r \in Requests :
        (reqs[r].pc = "done" /\ reqs[r].ran /\ ~Parsed(reqs[r])) =>
            reqs[r].status = 400

\* C10: a submit-answer that succeeds for question k of the session's n
\* questions returns question k+1 and isComplete = false when k < n, and
\* returns null and isComplete = true exactly when k = n.
C10_NextQuestion ==
    \A r \in Requests :
        (/\ reqs[r].pc = "done" /\ reqs[r].status = 200
         /\ reqs[r].route.handler = "submit") =>
            LET s == reqs[r].body.sessionId[1]
                k == reqs[r].body.questionId[2]
                n == sessions[s].questions
            IN /\ k \in 1..n
               /\ k < n => reqs[r].next = QuestionId(s, k + 1) /\ ~reqs[r].complete
               /\ k = n => reqs[r].next = Absent /\ reqs[r].complete

\* C10 witness: the last question was answered and the interview is complete
C10_Witness ==
    \E r \in Requests :
        /\ reqs[r].pc = "done" /\ reqs[r].status = 200
        /\ reqs[r].route.handler = "submit"
        /\ reqs[r].body.questionId[2] = NUM_QUESTIONS
        /\ reqs[r].complete

\* A submit-answer request is between its session SELECT and its response
Submitting(s) ==
    \E r \in Requests :
        /\ reqs[r].pc \in {"store", "update"}
        /\ reqs[r].body.sessionId = SessionId(s)

\* C11: once the submit-answer requests on a session have been answered,
\* also those that overlapped, metadata.questionsAsked of the session equals
\* the number of them that were accepted (answered 200).
C11_QuestionsAskedCounts ==
    \A s \in DOMAIN sessions :
        ~Submitting(s) => sessions[s].questionsAsked = sessions[s].accepted

C13_SecondAnswerIs409 ==
    \A r \in Requests :
        (/\ reqs[r].pc = "done" /\ reqs[r].ran
         /\ reqs[r].route.handler = "submit"
         /\ Parsed(reqs[r])
         /\ reqs[r].body.sessionId[1] \in DOMAIN sessions
         /\ sessions[reqs[r].body.sessionId[1]].user = reqs[r].user
         /\ reqs[r].known) =>
            /\ reqs[r].status = 409
            /\ \E a \in answers :
                 a.question = reqs[r].body.questionId /\ a.by # reqs[r].n

\* The session or resume a request addresses
Addressed(req) ==
    IF req.route.handler \in {"submit", "feedback"} THEN req.body.sessionId
    ELSE req.body.id
SessionHandlers == {"sessionRead", "patchMetadata", "patchSession", "feedback", "submit"}
ResumeHandlers == {"getResume", "deleteResume"}

\* The request addresses an existing session or resume of another user
ForeignResource(req) ==
    LET id == Addressed(req)
    IN /\ Len(id) = 1
       /\ \/ /\ req.route.handler \in SessionHandlers
             /\ id[1] \in DOMAIN sessions /\ sessions[id[1]].user # req.user
          \/ /\ req.route.handler \in ResumeHandlers
             /\ id[1] \in DOMAIN resumes /\ resumes[id[1]].user # req.user
             /\ ~resumes[id[1]].deleted

\* C14: a well-formed request by an authenticated user for an interview
\* session or a resume that another user owns is answered 403.
C14_ForeignIs403 ==
    \A r \in Requests :
        (/\ reqs[r].pc = "done" /\ reqs[r].ran /\ Parsed(reqs[r])
         /\ ForeignResource(reqs[r])) =>
            reqs[r].status = 403

\* C15: a request to a guarded endpoint whose token is correctly signed and
\* unexpired but names a user without a row in users is answered 401 by the
\* authentication step, and its handler never starts.
C15_UnknownUserIs401 ==
    \A r \in Requests :
        (/\ reqs[r].pc # "idle" /\ reqs[r].route.auth
         /\ Verify(PresentedToken(reqs[r]))
         /\ ~UserExists(PresentedToken(reqs[r]).sub)) =>
            /\ ~reqs[r].ran
            /\ reqs[r].pc \in {"auth", "done"}
            /\ reqs[r].pc = "done" => reqs[r].status = 401

\* C16: a well-formed request to a session-scoped interview endpoint that
\* addresses, by a UUID, a session that does not exist for the caller is
\* answered 404.
C16_MissingSessionIs404 ==
    \A r \in Requests :
        (/\ reqs[r].pc = "done" /\ reqs[r].ran /\ Parsed(reqs[r])
         /\ reqs[r].route.handler \in SessionHandlers
         /\ IsUuid(Addressed(reqs[r]))
         /\ ~SessionOwned(Addressed(reqs[r]), reqs[r].user)) =>
            reqs[r].status = 404

\* Every question of the session has a stored answer
AllAnswered(s) ==
    \A k \in 1..sessions[s].questions : AlreadyAnswered(QuestionId(s, k))

C20_InvalidAiFallsBack ==
    \A r \in Requests :
        (/\ reqs[r].pc = "done" /\ reqs[r].ran
         /\ reqs[r].route.handler = "upload"
         /\ reqs[r].body.file = "docx"
         /\ UserExists(reqs[r].user)
         /\ reqs[r].ai \in AiResponses \ {"valid"}) =>
            /\ reqs[r].status = 201
            /\ \E k \in DOMAIN resumes : resumes[k].by = reqs[r].n /\ resumes[k].mock

\* C21: no request authenticated as one user reads, creates or modifies what
\* is attached to a session of another user: every stored answer to a
\* question of a session was stored by a request of the session's owner, and
\* every request on a session that is answered with success was made by the
\* session's owner.
C21_NoCrossUserAccess ==
    /\ \A a \in answers : sessions[a.question[1]].user = a.user
    /\ \A r \in Requests :
          (/\ reqs[r].pc = "done" /\ reqs[r].status < 400
           /\ reqs[r].route.handler \in SessionHandlers) =>
              ~ForeignResource(reqs[r])

\* C22: a well-formed submit-answer that is answered 400 (the question does
\* not belong to the session) has stored no interview_answers row and has
\* not updated the session's metadata.
C22_RejectedLeavesNoRow ==
    \A r \in Requests :
        (/\ reqs[r].pc = "done" /\ reqs[r].status = 400 /\ Parsed(reqs[r])
         /\ reqs[r].route.handler = "submit") =>
            /\ ~\E a \in answers : a.by = reqs[r].n
            /\ sessions[reqs[r].body.sessionId[1]].questionsAsked = reqs[r].asked

\* the run has started and not settled
InProgress(i) == runs[i].pc \in {"companyLookup", "companyWrite", "jobLookup", "jobWrite"}
Settled(i) == runs[i].pc \in {"fulfilled", "rejected"}

\* C26: once every seeding run that was started has settled and at least one
\* has fulfilled, there is exactly one companies row per seed company name
\* and exactly one jobs row per seed externalId.
C26_OneRowPerSeed ==
    (/\ \A i \in Runs : ~InProgress(i)
     /\ \E i \in Runs : runs[i].pc = "fulfilled") =>
        \A k \in Seeds : companies[k] = 1 /\ jobs[k] = 1

\* C27: ensureCuratedJobsSeeded is single-flight: seedingPromise holds a run
\* exactly while that lazy run is in progress, so at most one is; a call made
\* while it holds one returns that run's promise and starts none; a call made
\* when it holds none (before any run, or after the run settled) starts one.
C27_SingleFlight ==
    /\ \A i \in Runs : (runs[i].lazy /\ InProgress(i)) => seedingPromise = i
    /\ seedingPromise # 0 =>
          runs[seedingPromise].lazy /\ InProgress(seedingPromise)
    /\ lastCall.pending # 0 =>
          lastCall.run = lastCall.pending /\ ~lastCall.started
    /\ (lastCall.run # 0 /\ lastCall.pending = 0) => lastCall.started

\* a lazy run has settled, a later call has started a new run, and a call
\* that arrived while the new run was in progress was handed that run
C27_Witness ==
    /\ lastCall.pending # 0 /\ lastCall.run = lastCall.pending
    /\ InProgress(lastCall.run)
    /\ \E j \in Runs : runs[j].lazy /\ Settled(j) /\ j < lastCall.run

====
